---- MODULE Spec2Model ----
(***************************************************************************)
(* Model of the DIRAC JobScheduling executor                               *)
(* (WorkloadManagementSystem/Executor/JobScheduling.py).                   *)
(*                                                                         *)
(* One call of optimizeJob is a run of the specification Spec: the call    *)
(* walks through the phases of the method (pc), every collaborator read    *)
(* (job attributes, manifest, configuration options, JobDB, optimizer      *)
(* record, storage-element status, stager) is an input drawn at the place  *)
(* the code reads it, and every collaborator write is appended to calls,   *)
(* the log of what the job state, the stager and the framework were asked  *)
(* to do.  SpecPRS runs __preRequestStaging alone over all small replica   *)
(* catalogues, SpecResched the reschedule back-off alone.                  *)
(***************************************************************************)
EXTENDS Integers, Sequences, FiniteSets, TLC

\* ---------------------------------------------------------------- bounds
MaxData == 2          \* largest number of LFNs of a job
MaxCounter == 5       \* largest RescheduleCounter
MaxDelays == 2        \* longest configured RescheduleDelays list
MaxCatalogue == 3     \* largest number of LFNs __preRequestStaging is run alone on

\* Storage elements.  A name is a number so that the order of names, which
\* sorted() uses as the secondary key, is the order of the numbers.
SEs == {1, 2}
Sites == {"LCG.CERN.ch", "LCG.PIC.es"}

VARIABLES
  pc,               \* position of the call
  calls,            \* log of the collaborator writes, in call order
  ret,              \* the envelope returned: [ok, msg], or NoRet while running
  reschedules,      \* attribute RescheduleCounter
  delays,           \* option RescheduleDelays
  waited,           \* toEpoch() - toEpoch(RescheduleTime)
  holdTime,         \* option HoldTime
  userSites,        \* sites of __getSitesRequired
  userBannedSites,  \* banned sites of __getSitesRequired
  jobType,          \* attribute JobType
  dpTypes,          \* Operations value Transformations/DataProcessing
  wmsBannedSites,   \* JobDB.getSiteMask('Banned')
  numData,          \* len(inputData); the LFNs are 1..numData
  opSites,          \* opData['SiteCandidates']: site -> [disk, tape]
  idSites,          \* keys of idSites (its records are those of opSites)
  stageRequired,    \* first component of __resolveStaging
  siteCandidates,   \* second component of __resolveStaging
  stageSites,       \* siteCandidates minus the WMS mask
  stageSite,        \* stageSites[0]
  lfnData,          \* opData['Value']['Value']['Successful']: lfn -> replica SEs
  tapeSEs,          \* tape-read SEs of the stage site
  diskSEs,          \* disk-read SEs of the stage site
  stageLFNs,        \* the stage request: SE -> list of LFNs
  minorOpt,         \* option StagingMinorStatus: "" when not configured
  excluded,         \* option ExcludedOnHoldJobTypes
  tqSites,          \* argument sites of __sendToTQ
  tqBanned,         \* argument bannedSites of __sendToTQ
  path,             \* branch taken at lines 102-110: "noInput", "production", "user"
  manifest,         \* the job manifest: its options Site, BannedSites, BannedSite
                    \* and JobType, and its section JobRequirements
  stageCheck,       \* the stage permission: the option RestrictDataStage as
                    \* read, whether the owner group was asked for, the answer
  siteTiers,        \* the answers of getSiteTier: site -> tier, or NoTier
  sitesCS,          \* CSHelpers.getSites(): the sites of the configuration
  statusDB,         \* the rows (name, statusType) of the site status table
  toBeDeleted       \* local of _syncSites

syncVars == << sitesCS, statusDB, toBeDeleted >>
reschedVars == << reschedules, delays, waited, holdTime >>
reqVars == << userSites, userBannedSites, jobType, dpTypes, excluded, wmsBannedSites >>
dataVars == << numData, opSites, idSites >>
resolveVars == << stageRequired, siteCandidates, stageSites, stageSite >>
stageVars == << lfnData, tapeSEs, diskSEs, stageLFNs, minorOpt >>
tqVars == << tqSites, tqBanned, path >>

vars == << pc, calls, ret, manifest, stageCheck, siteTiers, syncVars, reschedVars, reqVars, dataVars, resolveVars,
           stageVars, tqVars >>

\* Result envelopes.  A message is a tuple: its text, then what the code
\* formats into it.
NoRet == [ok |-> FALSE, msg |-> << "running" >>]
S_OK == [ok |-> TRUE, msg |-> << >>]
S_ERROR(m) == [ok |-> FALSE, msg |-> m]

EmptyFun == [x \in {} |-> 0]

\* The stage permission before it is looked at.
NoStageCheck == [restrict |-> FALSE, asked |-> FALSE, answer |-> ""]

\* A manifest without any of the options read or written here.  A list
\* option that is not set reads as the empty list (getOption( name, [] )).
NoManifest ==
  [Site |-> {}, BannedSites |-> {}, BannedSite |-> {}, JobType |-> {},
   JobRequirements |-> EmptyFun]

\* ------------------------------------------------- __preRequestStaging

\* A variant that passes over a disk replica without dropping the tape
\* replicas seen before it.
RECURSIVE ScanReplicasSkipDisk(_, _, _, _, _)
ScanReplicasSkipDisk(replicas, i, seStage, tapes, disks) ==
  IF i > Len(replicas) THEN seStage
  ELSE IF replicas[i] \in disks \/ replicas[i] \notin tapes
       THEN ScanReplicasSkipDisk(replicas, i + 1, seStage, tapes, disks)
  ELSE ScanReplicasSkipDisk(replicas, i + 1, Append(seStage, replicas[i]), tapes, disks)

\* Lines 393-402: the scan of one LFN's replica SEs, from position i on.
RECURSIVE ScanReplicas(_, _, _, _, _)
ScanReplicas(replicas, i, seStage, tapes, disks) ==
  IF i > Len(replicas) THEN seStage
  ELSE IF replicas[i] \in disks THEN << >>
  ELSE IF replicas[i] \notin tapes
       THEN ScanReplicas(replicas, i + 1, seStage, tapes, disks)
  ELSE ScanReplicas(replicas, i + 1, Append(seStage, replicas[i]), tapes, disks)

\* Lines 403-406: append lfn to the list of every SE of seStage.
RECURSIVE AddToStage(_, _, _, _)
AddToStage(stage, seStage, i, lfn) ==
  IF i > Len(seStage) THEN stage
  ELSE LET se == seStage[i]
           old == IF se \in DOMAIN stage THEN stage[se] ELSE << >>
           new == [s \in DOMAIN stage \cup {se} |->
                     IF s = se THEN Append(old, lfn) ELSE stage[s]]
       IN AddToStage(new, seStage, i + 1, lfn)

\* Lines 388-408: the over-replicated request and lfnToStage, LFN by LFN in
\* the iteration order 1..n of the replica dictionary.
RECURSIVE BuildStage(_, _, _, _, _)
BuildStage(data, lfn, acc, tapes, disks) ==
  IF lfn > Cardinality(DOMAIN data) THEN acc
  ELSE LET seStage == ScanReplicas(data[lfn], 1, << >>, tapes, disks)
           next == [stage |-> AddToStage(acc.stage, seStage, 1, lfn),
                    lfnToStage |-> IF Len(seStage) > 0
                                   THEN Append(acc.lfnToStage, lfn)
                                   ELSE acc.lfnToStage]
       IN BuildStage(data, lfn + 1, next, tapes, disks)

\* Line 416: the ( count, seName ) tuples, sorted and reversed.
RECURSIVE SortedSEs(_, _)
SortedSEs(stage, todo) ==
  IF todo = {} THEN << >>
  ELSE LET top == CHOOSE s \in todo : \A t \in todo :
                    \/ Len(stage[t]) < Len(stage[s])
                    \/ (Len(stage[t]) = Len(stage[s]) /\ t <= s)
       IN << top >> \o SortedSEs(stage, todo \ {top})

RemoveFirst(seq, x) ==
  LET i == CHOOSE k \in 1..Len(seq) : seq[k] = x /\ \A j \in 1..(k-1) : seq[j] # x
  IN SubSeq(seq, 1, i - 1) \o SubSeq(seq, i + 1, Len(seq))

InSeq(x, seq) == \E k \in 1..Len(seq) : seq[k] = x

\* Lines 420-429: the inner loop for one LFN.  sortedSEs is an iterator:
\* pos is how far it has been consumed, and the loop runs it to its end.
RECURSIVE TraverseSEs(_, _, _, _, _)
TraverseSEs(stage, sorted, pos, lfn, found) ==
  IF pos > Len(sorted) THEN [stage |-> stage, pos |-> pos]
  ELSE LET se == sorted[pos]
           hit == InSeq(lfn, stage[se])
           s1 == IF hit /\ found
                 THEN [stage EXCEPT ![se] = RemoveFirst(stage[se], lfn)]
                 ELSE stage
           s2 == IF Len(s1[se]) = 0
                 THEN [s \in DOMAIN s1 \ {se} |-> s1[s]]
                 ELSE s1
       IN TraverseSEs(s2, sorted, pos + 1, lfn, found \/ hit)

\* Line 417: where the iterator stands when the loop for the next LFN
\* starts.  reversed() gives one iterator for all the LFNs, so the loop
\* for an LFN starts where the loop for the previous one stopped.
IteratorStart(pos) == pos

\* Lines 417-429: the outer loop over lfnToStage.
RECURSIVE Minimize(_, _, _, _, _)
Minimize(stage, sorted, pos, lfnToStage, i) ==
  IF i > Len(lfnToStage) THEN stage
  ELSE LET r == TraverseSEs(stage, sorted, IteratorStart(pos), lfnToStage[i], FALSE)
       IN Minimize(r.stage, sorted, r.pos, lfnToStage, i + 1)

\* Lines 380-431, once the SE statuses of the stage site are known.
PreRequestStaging(site, data, tapes, disks) ==
  IF tapes = {} THEN [ok |-> FALSE, msg |-> << "No Local SEs for site", site >>, value |-> EmptyFun]
  ELSE LET b == BuildStage(data, 1, [stage |-> EmptyFun, lfnToStage |-> << >>],
                           tapes, disks)
       IN IF DOMAIN b.stage = {}
          THEN [ok |-> FALSE, msg |-> << "Cannot find tape replicas" >>, value |-> EmptyFun]
          ELSE [ok |-> TRUE, msg |-> << >>,
                value |-> Minimize(b.stage, SortedSEs(b.stage, DOMAIN b.stage), 1,
                                   b.lfnToStage, 1)]

\* ----------------------------------------------- reschedule back-off

Min(a, b) == IF a < b THEN a ELSE b

\* A variant that gives the first reschedule the first element of the list.
RescheduleDelayFromFirst(counter, dl) == dl[Min(counter - 1, Len(dl) - 1) + 1]

\* Line 63: delays[ min( reschedules, len( delays ) - 1 ) ], the list being
\* indexed from 0 in the code and from 1 here.
RescheduleDelay(counter, dl) == dl[Min(counter, Len(dl) - 1) + 1]

\* Lines 238-241: the time __holdJob freezes the task for.
FreezeTime(delay, ht) == IF delay # 0 THEN delay ELSE ht

\* Line 66: the delay argument that optimizeJob hands to __holdJob.
HoldDelayArg(delay, w) == delay

\* Lines 237-243: the writes of __holdJob.
HoldJob(holdMsg, delay, ht) ==
  << [op |-> "freezeTask", delay |-> FreezeTime(delay, ht)],
     [op |-> "setAppStatus", msg |-> holdMsg] >>

\* Line 61: whether the back-off check is made at all.
BackOffApplies(counter) == counter # 0

\* Lines 61-66: whether the job is held for rescheduling.
HeldForReschedule(counter, dl, w) ==
  BackOffApplies(counter) /\ w < RescheduleDelay(counter, dl)

\* Option HoldTime, default of line 241.
DefaultHoldTime == 300

\* Values of the RescheduleDelays option (60 and 180 are of the default
\* list of line 62) and of the time waited since RescheduleTime.
DelayValues == {0, 60, 180}
DelayLists == UNION { [1..n -> DelayValues] : n \in 1..MaxDelays }
WaitedValues == {0 - 5, 0, 59, 60, 100, 179, 180, 200}

\* ----------------------------------------------------------- SpecResched

InitResched ==
  /\ pc = "start"
  /\ calls = << >> /\ ret = NoRet
  /\ reschedules \in 0..MaxCounter
  /\ delays \in DelayLists
  /\ waited \in WaitedValues
  /\ holdTime = DefaultHoldTime
  /\ userSites = {} /\ userBannedSites = {} /\ jobType = "" /\ dpTypes = {}
  /\ excluded = {} /\ wmsBannedSites = {} /\ numData = 0 /\ opSites = EmptyFun
  /\ idSites = {} /\ stageRequired = FALSE /\ siteCandidates = {}
  /\ stageSites = {} /\ stageSite = "" /\ lfnData = EmptyFun
  /\ tapeSEs = {} /\ diskSEs = {} /\ stageLFNs = EmptyFun /\ minorOpt = ""
  /\ tqSites = {} /\ tqBanned = {} /\ path = ""
  /\ manifest = NoManifest /\ stageCheck = NoStageCheck
  /\ siteTiers = EmptyFun
  /\ sitesCS = {} /\ statusDB = {} /\ toBeDeleted = {}

\* Lines 61-66 for a counter, a delay list and a time waited: the job is
\* held.  The envelope returned is that of setAppStatus.
HoldForReschedule(counter, dl, w) ==
  /\ pc = "start"
  /\ HeldForReschedule(counter, dl, w)
  /\ LET delay == RescheduleDelay(counter, dl)
     IN calls' = calls \o HoldJob(<< "On Hold: after rescheduling", counter >>,
                                  HoldDelayArg(delay, w), holdTime)
  /\ \E ok \in BOOLEAN :
       ret' = IF ok THEN S_OK ELSE S_ERROR(<< "setAppStatus failed" >>)
  /\ pc' = "returned"

\* Lines 61-68: no hold, the call goes on to the site requirements.
PassReschedule(counter, dl, w) ==
  /\ pc = "start"
  /\ ~HeldForReschedule(counter, dl, w)
  /\ pc' = "getSitesRequired"
  /\ UNCHANGED << calls, ret >>

ReschedHold ==
  /\ HoldForReschedule(reschedules, delays, waited)
  /\ UNCHANGED << manifest, stageCheck, siteTiers, syncVars, reschedVars, reqVars, dataVars, resolveVars, stageVars, tqVars >>

ReschedPass ==
  /\ PassReschedule(reschedules, delays, waited)
  /\ UNCHANGED << manifest, stageCheck, siteTiers, syncVars, reschedVars, reqVars, dataVars, resolveVars, stageVars, tqVars >>

NextResched == ReschedHold \/ ReschedPass

SpecResched == InitResched /\ [][NextResched]_vars

\* ------------------------------------------------------ inputs of SpecPRS

\* The replica lists of one LFN: the SEs holding it, in any order.
ReplicaLists ==
  { q \in UNION { [1..n -> SEs] : n \in 0..Cardinality(SEs) } :
      \A i \in DOMAIN q, j \in DOMAIN q : q[i] = q[j] => i = j }

Catalogues == UNION { [1..n -> ReplicaLists] : n \in 1..MaxCatalogue }

\* The replica lists in the order of the SE names.  The order of a list
\* matters to the scan of lines 393-402 alone, which SpecPRS runs on the
\* lists in every order.
OrderedReplicaLists ==
  { q \in ReplicaLists : \A i \in DOMAIN q, j \in DOMAIN q : i < j => q[i] < q[j] }

\* --------------------------------------------------------------- SpecPRS

InitPRS ==
  /\ pc = "preRequestStaging"
  /\ calls = << >> /\ ret = NoRet
  /\ reschedules = 0 /\ delays = << >> /\ waited = 0 /\ holdTime = DefaultHoldTime
  /\ userSites = {} /\ userBannedSites = {} /\ jobType = "" /\ dpTypes = {}
  /\ excluded = {} /\ wmsBannedSites = {} /\ opSites = EmptyFun
  /\ idSites = {} /\ stageRequired = TRUE /\ siteCandidates = {}
  /\ stageSites = {} /\ stageLFNs = EmptyFun /\ minorOpt = ""
  /\ tqSites = {} /\ tqBanned = {} /\ path = "user"
  /\ manifest = NoManifest /\ stageCheck = NoStageCheck
  /\ siteTiers = EmptyFun
  /\ sitesCS = {} /\ statusDB = {} /\ toBeDeleted = {}
  /\ stageSite \in Sites
  /\ lfnData \in Catalogues
  /\ numData = Cardinality(DOMAIN lfnData)
  /\ tapeSEs \in SUBSET SEs
  /\ diskSEs \in SUBSET SEs

\* Lines 380-431 on the catalogue and the SE statuses of the state.
PRSBuild ==
  /\ pc = "preRequestStaging"
  /\ LET r == PreRequestStaging(stageSite, lfnData, tapeSEs, diskSEs)
     IN /\ stageLFNs' = r.value
        /\ ret' = [ok |-> r.ok, msg |-> r.msg]
        /\ pc' = "returned"
  /\ UNCHANGED << calls, manifest, stageCheck, siteTiers, syncVars, reschedVars, reqVars, dataVars, resolveVars, tqVars,
                  lfnData, tapeSEs, diskSEs, minorOpt >>

NextPRS == PRSBuild

SpecPRS == InitPRS /\ [][NextPRS]_vars

\* ------------------------------------------------------------ optimizeJob

\* Lines 226-235: _applySiteFilter.  Site lists are sets here: the code
\* goes through set() and gives the list back in no particular order.
ApplySiteFilter(sites, banned) ==
  IF sites = {} THEN sites
  ELSE IF banned # {} THEN sites \ banned ELSE sites

\* Line 263: site.strip().lower() on the entries a manifest may hold.
StripLower(entry) ==
  CASE entry = "ANY" -> "any"
    [] entry = " any " -> "any"
    [] entry = "" -> ""
    [] entry = "LCG.CERN.ch" -> "lcg.cern.ch"
    [] entry = "LCG.PIC.es" -> "lcg.pic.es"

ManifestSiteEntries == Sites \cup {"ANY", " any ", ""}

\* A variant that reads the option BannedSites only, without going to
\* BannedSite when it is empty.
SitesRequiredNoFallback(siteOpt, bannedSitesOpt, bannedSiteOpt) ==
  LET sites == { e \in siteOpt : StripLower(e) \notin {"any", ""} }
      filtered == ApplySiteFilter(sites, bannedSitesOpt)
  IN IF sites # {} /\ filtered = {}
     THEN [ok |-> FALSE, sites |-> {}, banned |-> {}]
     ELSE [ok |-> TRUE, sites |-> filtered, banned |-> bannedSitesOpt]

\* Lines 255-274: __getSitesRequired on the options Site, BannedSites and
\* BannedSite of the manifest.
SitesRequired(siteOpt, bannedSitesOpt, bannedSiteOpt) ==
  LET bannedSites == IF bannedSitesOpt # {} THEN bannedSitesOpt ELSE bannedSiteOpt
      sites == { e \in siteOpt : StripLower(e) \notin {"any", ""} }
      filtered == ApplySiteFilter(sites, bannedSites)
  IN IF sites # {} /\ filtered = {}
     THEN [ok |-> FALSE, sites |-> {}, banned |-> {}]
     ELSE [ok |-> TRUE, sites |-> filtered, banned |-> bannedSites]

\* Line 155: the input-data sites that meet the user's requirement.
IntersectSites(candidates, uSites, uBanned) ==
  ApplySiteFilter(candidates \cap uSites, uBanned)

\* A variant that keeps the sites whatever files they have.
CompleteSitesUnchecked(sites, recs, n) == sites

\* Lines 163-171: the sites left in idSites, those with every file.
CompleteSites(sites, recs, n) ==
  { site \in sites : n = recs[site].disk + recs[site].tape }

\* Lines 330-343: the loop of __resolveStaging over idSites.
RECURSIVE ResolveLoop(_, _, _, _)
ResolveLoop(todo, recs, n, acc) ==
  IF todo = {} THEN acc
  ELSE LET site == CHOOSE x \in todo : TRUE
           nDisk == recs[site].disk
           a1 == IF nDisk > 0 /\ nDisk = n
                 THEN [acc EXCEPT !.diskSites = @ \cup {site}]
                 ELSE acc
           a2 == IF nDisk > a1.maxOnDisk
                 THEN [a1 EXCEPT !.maxOnDisk = nDisk, !.bestSites = {site}]
                 ELSE IF nDisk = a1.maxOnDisk
                      THEN [a1 EXCEPT !.bestSites = @ \cup {site}]
                      ELSE a1
       IN ResolveLoop(todo \ {site}, recs, n, a2)

\* A variant that takes any site with a file on disk for a disk site.
ResolveStagingAnyDisk(n, ids, recs) ==
  LET r == ResolveLoop(ids, recs, n,
                       [diskSites |-> {}, maxOnDisk |-> 0, bestSites |-> {}])
      onDisk == { site \in ids : recs[site].disk > 0 }
  IN IF onDisk # {}
     THEN [stageRequired |-> FALSE, sites |-> onDisk]
     ELSE [stageRequired |-> TRUE, sites |-> r.bestSites]

\* Lines 325-353: __resolveStaging.  The shuffle changes the order only.
ResolveStaging(n, ids, recs) ==
  LET r == ResolveLoop(ids, recs, n,
                       [diskSites |-> {}, maxOnDisk |-> 0, bestSites |-> {}])
  IN IF r.diskSites # {}
     THEN [stageRequired |-> FALSE, sites |-> r.diskSites]
     ELSE [stageRequired |-> TRUE, sites |-> r.bestSites]

\* Line 559: the site name without its first dotted token.
SiteTail(site) ==
  CASE site = "LCG.CERN.ch" -> "CERN.ch"
    [] site = "LCG.PIC.es" -> "PIC.es"
    [] site = "LCG.NIKHEF.nl" -> "NIKHEF.nl"

\* getSiteTier: a tier, or NoTier when the lookup fails.
NoTier == 0 - 1
Tiers == {NoTier, 0, 1, 2}

\* The loop of __setJobSite without the step that reads tier 0 as tier 1.
RECURSIVE TierLoopTierZero(_, _, _)
TierLoopTierZero(todo, tiers, acc) ==
  IF todo = {} THEN acc
  ELSE LET siteName == CHOOSE x \in todo : TRUE
           rest == todo \ {siteName}
       IN IF tiers[siteName] = NoTier THEN TierLoopTierZero(rest, tiers, acc)
          ELSE LET siteTier == tiers[siteName]
                   a1 == IF acc.tierLevel = 0 - 1 \/ acc.tierLevel > siteTier
                         THEN [tierLevel |-> siteTier, tierSite |-> {}]
                         ELSE acc
                   a2 == IF a1.tierLevel = siteTier
                         THEN [a1 EXCEPT !.tierSite = @ \cup {siteName}]
                         ELSE a1
               IN TierLoopTierZero(rest, tiers, a2)

\* Lines 541-556: the loop of __setJobSite over siteList.
RECURSIVE TierLoop(_, _, _)
TierLoop(todo, tiers, acc) ==
  IF todo = {} THEN acc
  ELSE LET siteName == CHOOSE x \in todo : TRUE
           rest == todo \ {siteName}
       IN IF tiers[siteName] = NoTier THEN TierLoop(rest, tiers, acc)
          ELSE LET siteTier == IF tiers[siteName] = 0 THEN 1 ELSE tiers[siteName]
                   a1 == IF acc.tierLevel = 0 - 1 \/ acc.tierLevel > siteTier
                         THEN [tierLevel |-> siteTier, tierSite |-> {}]
                         ELSE acc
                   a2 == IF a1.tierLevel = siteTier
                         THEN [a1 EXCEPT !.tierSite = @ \cup {siteName}]
                         ELSE a1
               IN TierLoop(rest, tiers, a2)

\* Lines 528-565: the value __setJobSite gives the Site attribute.
JobSite(siteList, tiers) ==
  IF siteList = {} THEN << "ANY" >>
  ELSE IF Cardinality(siteList) = 1 THEN << CHOOSE x \in siteList : TRUE >>
  ELSE LET r == TierLoop(siteList, tiers, [tierLevel |-> 0 - 1, tierSite |-> {}])
       IN IF Cardinality(r.tierSite) = 1
          THEN << "Group.", SiteTail(CHOOSE x \in r.tierSite : TRUE) >>
          ELSE << "Multiple" >>

\* The replica records a site may have for n files.
Records(n) == { r \in [disk : 0..n, tape : 0..n] : r.disk + r.tape <= n }
JobTypes == {"User", "DataReconstruction"}

Return(r) == ret' = r /\ pc' = "returned"
Log(entries) == calls' = calls \o entries

Init ==
  /\ pc = "start"
  /\ calls = << >> /\ ret = NoRet
  /\ reschedules = 0 /\ delays = << >> /\ waited = 0 /\ holdTime = DefaultHoldTime
  /\ userSites = {} /\ userBannedSites = {} /\ jobType = "" /\ dpTypes = {}
  /\ excluded = {} /\ wmsBannedSites = {} /\ numData = 0 /\ opSites = EmptyFun
  /\ idSites = {} /\ stageRequired = FALSE /\ siteCandidates = {}
  /\ stageSites = {} /\ stageSite = "" /\ lfnData = EmptyFun
  /\ tapeSEs = {} /\ diskSEs = {} /\ stageLFNs = EmptyFun /\ minorOpt = ""
  /\ tqSites = {} /\ tqBanned = {} /\ path = ""
  /\ manifest = NoManifest /\ stageCheck = NoStageCheck
  /\ siteTiers = EmptyFun
  /\ sitesCS = {} /\ statusDB = {} /\ toBeDeleted = {}

\* Lines 53-60: the attributes cannot be read, or the counter is no integer.
AttributesFail ==
  /\ pc = "start"
  /\ \E m \in {"getAttributes failed", "RescheduleCounter has to be an integer"} :
       Return(S_ERROR(<< m >>))
  /\ UNCHANGED << calls, manifest, stageCheck, siteTiers, syncVars, reschedVars, reqVars, dataVars, resolveVars, stageVars, tqVars >>

\* Lines 53-66 for the attributes, the option and the clock of this call.
Reschedule ==
  /\ \E counter \in 0..MaxCounter, dl \in DelayLists, w \in WaitedValues :
       HoldForReschedule(counter, dl, w) \/ PassReschedule(counter, dl, w)
  /\ UNCHANGED << manifest, stageCheck, siteTiers, syncVars, reschedVars, reqVars, dataVars, resolveVars, stageVars, tqVars >>

\* Lines 68-72: __getSitesRequired on the manifest of the job.
GetSitesRequired ==
  /\ pc = "getSitesRequired"
  /\ \/ /\ Return(S_ERROR(<< "Could not retrieve manifest" >>))
        /\ UNCHANGED << userSites, userBannedSites >>
     \/ \E siteOpt \in SUBSET ManifestSiteEntries,
           bannedSitesOpt \in SUBSET Sites, bannedSiteOpt \in SUBSET Sites :
          LET r == SitesRequired(siteOpt, bannedSitesOpt, bannedSiteOpt)
          IN IF r.ok
             THEN /\ userSites' = r.sites
                  /\ userBannedSites' = r.banned
                  /\ pc' = "getJobType"
                  /\ ret' = ret
             ELSE /\ Return(S_ERROR(<< "Impossible site requirement" >>))
                  /\ UNCHANGED << userSites, userBannedSites >>
  /\ UNCHANGED << calls, manifest, stageCheck, siteTiers, syncVars, reschedVars, jobType, dpTypes, excluded, wmsBannedSites,
                  dataVars, resolveVars, stageVars, tqVars >>

\* Lines 74-84: the job type and the banned sites of the WMS.
GetJobType ==
  /\ pc = "getJobType"
  /\ \/ /\ \E m \in {"Could not retrieve job type",
                     "Cannot retrieve banned sites from JobDB"} :
             Return(S_ERROR(<< m >>))
        /\ UNCHANGED << jobType, wmsBannedSites >>
     \/ /\ jobType' \in JobTypes
        /\ wmsBannedSites' \in SUBSET Sites
        /\ pc' = "userSitesHold"
        /\ ret' = ret
  /\ UNCHANGED << calls, manifest, stageCheck, siteTiers, syncVars, reschedVars, userSites, userBannedSites, dpTypes, excluded,
                  dataVars, resolveVars, stageVars, tqVars >>

\* A variant with one message for one site and for several.
InactiveMsgPlural(sites) == << "Requested sites are inactive", sites >>

\* Line 92 or 94: the message of the hold.
InactiveMsg(sites) ==
  IF Cardinality(sites) > 1 THEN << "Requested sites are inactive", sites >>
  ELSE << "Requested site is inactive", sites >>

\* Lines 86-94: hold the job when none of the sites it asks for is active.
UserSitesHold ==
  /\ pc = "userSitesHold"
  /\ excluded' \in SUBSET JobTypes
  /\ IF /\ userSites # {}
        /\ jobType \notin excluded'
        /\ ApplySiteFilter(userSites, wmsBannedSites) = {}
     THEN /\ Log(HoldJob(InactiveMsg(userSites), 0, holdTime))
          /\ \E ok \in BOOLEAN :
               Return(IF ok THEN S_OK ELSE S_ERROR(<< "setAppStatus failed" >>))
     ELSE /\ pc' = "getInputData"
          /\ UNCHANGED << calls, ret >>
  /\ UNCHANGED << manifest, stageCheck, siteTiers, syncVars, reschedVars, userSites, userBannedSites, jobType, dpTypes,
                  wmsBannedSites, dataVars, resolveVars, stageVars, tqVars >>

\* A variant that takes the sites banned by the WMS out of the list.
ForwardActiveSites(uSites, wmsBanned) == uSites \ wmsBanned

\* Lines 104 and 137: the sites a job that needs no replica lookup is
\* sent to the task queue with.
ForwardSites(uSites, wmsBanned) == uSites

\* Lines 96-110: the input data; without any the job goes to the task
\* queue, a job of a data-processing type takes the production shortcut.
\* The option of line 88 is not read again.
GetInputData ==
  /\ pc = "getInputData"
  /\ excluded' = {}
  /\ \/ /\ Return(S_ERROR(<< "Failed to get input data from JobDB" >>))
        /\ UNCHANGED << numData, dpTypes, tqSites, tqBanned, path >>
     \/ /\ numData' = 0
        /\ tqSites' = ForwardSites(userSites, wmsBannedSites)
        /\ tqBanned' = userBannedSites
        /\ pc' = "sendToTQ"
        /\ path' = "noInput"
        /\ UNCHANGED << ret, dpTypes >>
     \/ /\ numData' \in 1..MaxData
        /\ dpTypes' \in SUBSET JobTypes
        /\ pc' = IF jobType \in dpTypes' THEN "production" ELSE "retrieve"
        /\ path' = IF jobType \in dpTypes' THEN "production" ELSE "user"
        /\ UNCHANGED << ret, tqSites, tqBanned >>
  /\ UNCHANGED << calls, manifest, stageCheck, siteTiers, syncVars, reschedVars, userSites, userBannedSites, jobType,
                  wmsBannedSites, opSites, idSites, resolveVars, stageVars >>

\* Lines 141-173: the optimizer record of the InputData agent, its sites
\* filtered with the user's requirement, and those with every file.
RetrieveAndFilter ==
  /\ pc = "retrieve"
  /\ \/ /\ \E m \in {"Could not retrieve input data info", "No possible site candidates"} :
             Return(S_ERROR(<< m >>))
        /\ UNCHANGED << opSites, idSites >>
     \/ \E keys \in SUBSET Sites : \E recs \in [keys -> Records(numData)] :
          LET cands == IntersectSites(keys, userSites, userBannedSites)
              ids == CompleteSites(cands, recs, numData)
          IN /\ opSites' = recs
             /\ IF cands = {}
                THEN /\ Return(S_ERROR(<< "Impossible InputData * Site requirements" >>))
                     /\ idSites' = {}
                ELSE IF ids = {}
                THEN /\ Return(S_ERROR(<< "Site candidates do not have all the input data" >>))
                     /\ idSites' = ids
                ELSE /\ idSites' = ids
                     /\ pc' = "resolveStaging"
                     /\ ret' = ret
  /\ UNCHANGED << calls, manifest, stageCheck, siteTiers, syncVars, reschedVars, reqVars, numData, resolveVars, stageVars, tqVars >>

\* A variant that forwards the active candidates only.
ForwardActiveCandidates(candidates, active) == active

\* Lines 186-189: the sites given to __sendToTQ when no staging is needed,
\* siteCandidates and not stageSites.
ForwardCandidates(candidates, active) == candidates

\* Lines 175-189: __resolveStaging, the WMS mask, and the forward when no
\* staging is needed.
ResolveAndFilter ==
  /\ pc = "resolveStaging"
  /\ LET r == ResolveStaging(numData, idSites, opSites)
         active == ApplySiteFilter(r.sites, wmsBannedSites)
     IN /\ stageRequired' = r.stageRequired
        /\ siteCandidates' = r.sites
        /\ stageSites' = active
        /\ IF r.sites = {}
           THEN /\ Return(S_ERROR(<< "No destination sites available" >>))
                /\ UNCHANGED << calls, tqSites, tqBanned >>
           ELSE IF active = {}
           THEN /\ Log(HoldJob(<< "Sites are inactive or banned", r.sites >>, 0, holdTime))
                /\ \E ok \in BOOLEAN :
                     Return(IF ok THEN S_OK ELSE S_ERROR(<< "setAppStatus failed" >>))
                /\ UNCHANGED << tqSites, tqBanned >>
           ELSE IF ~r.stageRequired
           THEN /\ tqSites' = ForwardCandidates(r.sites, active)
                /\ tqBanned' = userBannedSites
                /\ pc' = "sendToTQ"
                /\ UNCHANGED << calls, ret >>
           ELSE /\ pc' = "checkStageAllowed"
                /\ UNCHANGED << calls, ret, tqSites, tqBanned >>
  /\ UNCHANGED << manifest, stageCheck, siteTiers, syncVars, reschedVars, reqVars, dataVars, stageSite, stageVars, path >>

\* reqCfg.setOption( name, value ): the option is created or overwritten.
SetOption(section, name, value) ==
  [k \in DOMAIN section \cup {name} |-> IF k = name THEN value ELSE section[k]]

\* Lines 288-316: the section JobRequirements once __sendToTQ has written
\* to it.  The section is the one the manifest already has, if any.  Of
\* the keys copied at lines 303-316 the manifest has JobType alone here.
RequirementsAfterForward(m, sites, banned) ==
  LET r1 == IF sites # {} THEN SetOption(m.JobRequirements, "Sites", sites)
            ELSE m.JobRequirements
      r2 == IF banned # {} THEN SetOption(r1, "BannedSites", banned) ELSE r1
  IN IF m.JobType # {} THEN SetOption(r2, "JobTypes", m.JobType) ELSE r2

\* A variant that moves the site requirements into the section: the options
\* Site, BannedSites and BannedSite are taken out of the manifest.
ManifestMovedToRequirements(m, sites, banned) ==
  [m EXCEPT !.JobRequirements = RequirementsAfterForward(m, sites, banned),
            !.Site = {}, !.BannedSites = {}, !.BannedSite = {}]

\* Lines 281-316: the manifest once __sendToTQ has written to it.
ManifestAfterForward(m, sites, banned) ==
  [m EXCEPT !.JobRequirements = RequirementsAfterForward(m, sites, banned)]

\* Lines 277-323: __sendToTQ( jobState, tqSites, tqBanned ).
SendToTQ ==
  /\ pc = "sendToTQ"
  /\ LET options ==
           (IF tqSites # {}
            THEN << [op |-> "setOption", name |-> "Sites", value |-> tqSites] >>
            ELSE << >>) \o
           (IF tqBanned # {}
            THEN << [op |-> "setOption", name |-> "BannedSites", value |-> tqBanned] >>
            ELSE << >>)
     IN \/ /\ \E m \in {"Could not retrieve manifest",
                          "Cannot create JobRequirements in the manifest"} :
                Return(S_ERROR(<< m >>))
           /\ UNCHANGED << calls, manifest >>
        \/ \E tiers \in [tqSites -> Tiers] :
             LET site == [op |-> "setAttribute", name |-> "Site",
                          value |-> JobSite(tqSites, tiers)]
             IN /\ manifest' = ManifestAfterForward(manifest, tqSites, tqBanned)
                /\ \/ /\ Log(options \o << site >>)
                      /\ Return(S_ERROR(<< "setAttribute failed" >>))
                   \/ /\ Log(options \o << site, [op |-> "setNextOptimizer"] >>)
                      /\ \E ok \in BOOLEAN :
                           Return(IF ok THEN S_OK ELSE S_ERROR(<< "setNextOptimizer failed" >>))
  /\ UNCHANGED << stageCheck, siteTiers, syncVars, reschedVars, reqVars, dataVars, resolveVars, stageVars,
                  tqVars >>

\* getFilesToStage: the offlineLFNs a production job may be told to stage.
OfflineRequests(n) ==
  {EmptyFun} \cup { [se \in {x} |-> << lfn >>] : x \in SEs, lfn \in 1..n }

\* Lines 567-574 and their use at lines 129-133 and 193-197: what
\* __checkStageAllowed makes of the owner group.
StageCheckOutcomes == {"allowed", "Stage not allowed", "Cannot get OwnerGroup"}

\* Lines 113-137: the production shortcut.
Production ==
  /\ pc = "production"
  /\ \/ /\ \E m \in {"getAttribute Owner failed", "getAttribute OwnerGroup failed"} :
             Return(S_ERROR(<< m >>))
        /\ UNCHANGED << calls, stageCheck, stageLFNs, tqSites, tqBanned >>
     \/ /\ Log(HoldJob(<< "getFilesToStage failed" >>, 0, holdTime))
        /\ \E ok \in BOOLEAN :
             Return(IF ok THEN S_OK ELSE S_ERROR(<< "setAppStatus failed" >>))
        /\ UNCHANGED << stageCheck, stageLFNs, tqSites, tqBanned >>
     \/ /\ tqSites' = ForwardSites(userSites, wmsBannedSites)
        /\ tqBanned' = userBannedSites
        /\ pc' = "sendToTQ"
        /\ UNCHANGED << calls, ret, stageCheck, stageLFNs >>
     \/ \E offline \in OfflineRequests(numData) \ {EmptyFun}, check \in StageCheckOutcomes :
          /\ stageCheck' = [restrict |-> FALSE, asked |-> TRUE, answer |-> check]
          /\ IF check = "allowed"
             THEN /\ stageLFNs' = offline
                  /\ pc' = "rs_setStatus1"
                  /\ UNCHANGED << calls, ret, tqSites, tqBanned >>
             ELSE /\ Return(S_ERROR(<< check >>))
                  /\ UNCHANGED << calls, stageLFNs, tqSites, tqBanned >>
  /\ UNCHANGED << manifest, siteTiers, syncVars, reschedVars, reqVars, dataVars, resolveVars, lfnData,
                  tapeSEs, diskSEs, minorOpt, path >>

\* A variant that asks for the owner group whatever the option says.
GroupAlwaysConsulted(restrict) == TRUE

\* Lines 192-193: whether __checkStageAllowed is called on the user path,
\* given the option RestrictDataStage.
GroupConsulted(restrict) == restrict

\* Lines 191-197: the stage permission of a user job, asked for only when
\* the option RestrictDataStage is set.
CheckStageAllowed ==
  /\ pc = "checkStageAllowed"
  /\ \E restrict \in BOOLEAN :
       IF GroupConsulted(restrict)
       THEN \E check \in StageCheckOutcomes :
              /\ stageCheck' = [restrict |-> restrict, asked |-> TRUE, answer |-> check]
              /\ IF check # "allowed"
                 THEN Return(S_ERROR(<< check >>))
                 ELSE pc' = "rewrite" /\ ret' = ret
       ELSE /\ stageCheck' = [restrict |-> restrict, asked |-> FALSE, answer |-> ""]
            /\ pc' = "rewrite" /\ ret' = ret
  /\ UNCHANGED << calls, manifest, siteTiers, syncVars, reschedVars, reqVars, dataVars, resolveVars, stageVars,
                  tqVars >>

\* After line 200 the call reads none of these locals again: they are
\* given back their initial values, so that calls which differ only in
\* values that are no longer read are one state.
DropRequirements ==
  /\ userSites' = {} /\ userBannedSites' = {} /\ jobType' = "" /\ dpTypes' = {}
  /\ excluded' = {} /\ wmsBannedSites' = {}
  /\ stageRequired' = FALSE /\ siteCandidates' = {}
  /\ stageCheck' = NoStageCheck

\* A variant that counts the tape replicas on disk and keeps them on tape.
StagedTapeKept(rec) == [disk |-> rec.disk + rec.tape, tape |-> rec.tape]

\* Lines 204-205: the record of the stage site once everything is staged.
Staged(rec) == [disk |-> rec.disk + rec.tape, tape |-> 0]

\* Lines 199-207: the stage site, any of stageSites (a list made from a
\* set), and its record rewritten in the optimizer record.
ChooseStageSite ==
  /\ pc = "rewrite"
  /\ \E site \in stageSites :
       /\ stageSite' = site
       /\ opSites' = [opSites EXCEPT ![site] = Staged(opSites[site])]
  /\ pc' = "preRequestStaging"
  /\ DropRequirements
  /\ UNCHANGED << calls, ret, manifest, siteTiers, syncVars, reschedVars, numData, idSites, stageSites,
                  stageVars, tqVars >>

\* Lines 355-431 and 209-212: __preRequestStaging for the stage site, on the
\* SEs of the site, their statuses and the replicas of the optimizer record.
\* tapes and disks are the lists of lines 361-378, locals of the method.
BuildStageRequest ==
  /\ pc = "preRequestStaging"
  /\ \/ /\ \E m \in {"Could not determine SEs for site", "getManifest failed",
                     "Cannot retrieve SE status"} :
             Return(S_ERROR(<< m >>))
        /\ UNCHANGED << lfnData, stageLFNs >>
     \/ \E data \in [1..numData -> OrderedReplicaLists] :
        \E tapes \in SUBSET SEs, disks \in SUBSET SEs :
          LET r == PreRequestStaging(stageSite, data, tapes, disks)
          IN /\ lfnData' = data
             /\ stageLFNs' = r.value
             /\ IF r.ok
                THEN pc' = "rs_setStatus1" /\ ret' = ret
                ELSE Return(S_ERROR(r.msg))
  /\ UNCHANGED << calls, manifest, stageCheck, siteTiers, syncVars, reschedVars, reqVars, dataVars, resolveVars, tapeSEs,
                  diskSEs, minorOpt, tqVars >>

\* ex_getOption( name, default ): "" stands for an option that is not set.
GetOption(configured, default) == IF configured = "" THEN default ELSE configured

\* Values of the option StagingMinorStatus.
MinorOptions == {"", "Waiting for tape"}

\* A variant that goes on to the shared-SE update whatever the dispatch
\* answered.
AfterRequestStagingUnchecked(result) ==
  IF path = "production" THEN Return(S_OK)
  ELSE pc' = "updateSharedSESites" /\ ret' = ret

\* A variant that forwards a production job once its stage request is sent.
AfterRequestStagingForward(result) ==
  IF path = "production" THEN pc' = "sendToTQ" /\ ret' = ret
  ELSE IF result.ok THEN pc' = "updateSharedSESites" /\ ret' = ret
  ELSE Return(result)

\* Lines 134-135 and 213-216: what the caller of __requestStaging does
\* with its result.
AfterRequestStaging(result) ==
  IF path = "production" THEN Return(S_OK)
  ELSE IF result.ok THEN pc' = "updateSharedSESites" /\ ret' = ret
  ELSE Return(result)

\* A variant whose first status write is that of a request already sent.
FirstStatusSent(opt, ok) ==
  [op |-> "setStatus", major |-> "Staging",
   minor |-> GetOption(opt, "Request Sent"), ok |-> ok]

\* Lines 440-443: the first status write.
FirstStatus(opt, ok) ==
  [op |-> "setStatus", major |-> "Staging",
   minor |-> GetOption(opt, "Request To Be Sent"), ok |-> ok]

\* Lines 458-461: the second status write.
SecondStatus(opt, ok) ==
  [op |-> "setStatus", major |-> "Staging",
   minor |-> GetOption(opt, "Request Sent"), ok |-> ok]

\* Lines 440-445.
RsSetStatus1 ==
  /\ pc = "rs_setStatus1"
  /\ \E opt \in MinorOptions, ok \in BOOLEAN :
       /\ minorOpt' = opt
       /\ Log(<< FirstStatus(opt, ok) >>)
       /\ IF ok THEN pc' = "rs_setRequest" /\ ret' = ret
          ELSE AfterRequestStaging(S_ERROR(<< "setStatus failed" >>))
  /\ UNCHANGED << manifest, stageCheck, siteTiers, syncVars, reschedVars, reqVars, dataVars, resolveVars, lfnData, tapeSEs,
                  diskSEs, stageLFNs, tqVars >>

\* The request ids the stager may give.
RequestIds == {"rid1", "rid2"}

\* A variant that writes the parameter whatever the stager answered.
RequestEntriesUnchecked(ok, rid) ==
  << [op |-> "setRequest", ok |-> ok, rid |-> rid],
     [op |-> "setParameter", name |-> "StageRequest", value |-> rid] >>

\* Lines 447-456: the writes that go with an answer of the stager.
RequestEntries(ok, rid) ==
  IF ok
  THEN << [op |-> "setRequest", ok |-> TRUE, rid |-> rid],
          [op |-> "setParameter", name |-> "StageRequest", value |-> rid] >>
  ELSE << [op |-> "setRequest", ok |-> FALSE, rid |-> ""] >>

\* Lines 447-456.
RsSetRequest ==
  /\ pc = "rs_setRequest"
  /\ \/ /\ \E rid \in RequestIds : Log(RequestEntries(TRUE, rid))
        /\ pc' = "rs_setStatus2" /\ ret' = ret
     \/ /\ Log(RequestEntries(FALSE, ""))
        /\ AfterRequestStaging(S_ERROR(<< "Problem sending staging request" >>))
  /\ UNCHANGED << manifest, stageCheck, siteTiers, syncVars, reschedVars, reqVars, dataVars, resolveVars, stageVars, tqVars >>

\* Lines 458-465.
RsSetStatus2 ==
  /\ pc = "rs_setStatus2"
  /\ \E ok \in BOOLEAN :
       /\ Log(<< SecondStatus(minorOpt, ok) >>)
       /\ AfterRequestStaging(IF ok THEN S_OK ELSE S_ERROR(<< "setStatus failed" >>))
  /\ UNCHANGED << manifest, stageCheck, siteTiers, syncVars, reschedVars, reqVars, dataVars, resolveVars, stageVars, tqVars >>

\* Lines 504-523 for one site: how many staged replicas, on SEs close to
\* the site, are files the site does not have on disk.
Promoted(staged, data, closeSEs, siteDisk) ==
  Cardinality({ p \in (DOMAIN staged \cap closeSEs) \X (1..MaxData) :
                  /\ p[2] <= Len(staged[p[1]])
                  /\ staged[p[1]][p[2]] \in DOMAIN data
                  /\ ~\E k \in DOMAIN data[staged[p[1]][p[2]]] :
                        data[staged[p[1]][p[2]]][k] \in siteDisk })

\* A variant that counts the promoted files on disk and leaves tape alone.
PromoteDiskOnly(rec, k) == [disk |-> rec.disk + k, tape |-> rec.tape]

\* Lines 522-523: the record of a site after k promotions.
Promote(rec, k) == [disk |-> rec.disk + k, tape |-> rec.tape - k]

\* What __updateSharedSESites learns about a site: whether getSEsForSite
\* answered, the SEs it gave, and those of them found readable disk SEs (an
\* SE whose status cannot be read is none).
SiteAnswers ==
  { a \in [ok : BOOLEAN, close : SUBSET SEs, disk : SUBSET SEs] :
      a.disk \subseteq a.close /\ (~a.ok => a.close = {}) }

\* Lines 468-525: __updateSharedSESites, given the answers for the sites
\* other than the stage site.
UpdateSharedSESites(recs, stage, staged, data, answers) ==
  [site \in DOMAIN recs |->
     IF site = stage \/ ~answers[site].ok THEN recs[site]
     ELSE Promote(recs[site],
                  Promoted(staged, data, answers[site].close, answers[site].disk))]

\* Lines 217 and 468-525.  The stage request and the replicas are not
\* read after this call: they are given back their initial values.
UpdateSharedSEs ==
  /\ pc = "updateSharedSESites"
  /\ \/ opSites' = opSites             \* line 473: the manifest cannot be read
     \/ \E answers \in [DOMAIN opSites \ {stageSite} -> SiteAnswers] :
          opSites' = UpdateSharedSESites(opSites, stageSite, stageLFNs, lfnData, answers)
  /\ lfnData' = EmptyFun /\ stageLFNs' = EmptyFun
  /\ pc' = "store"
  /\ UNCHANGED << calls, ret, manifest, stageCheck, siteTiers, syncVars, reschedVars, reqVars, numData, idSites, resolveVars,
                  tapeSEs, diskSEs, minorOpt, tqVars >>

\* Lines 218-222: the optimizer record is stored.
StoreOptimizerParam ==
  /\ pc = "store"
  /\ Log(<< [op |-> "storeOptimizerParam", value |-> opSites] >>)
  /\ \/ pc' = "setJobSite" /\ ret' = ret
     \/ Return(S_ERROR(<< "storeOptimizerParam failed" >>))
  /\ UNCHANGED << manifest, stageCheck, siteTiers, syncVars, reschedVars, reqVars, dataVars, resolveVars, stageVars, tqVars >>

\* Line 224: __setJobSite( jobState, stageSites ).
SetJobSite ==
  /\ pc = "setJobSite"
  /\ \E tiers \in [stageSites -> Tiers] :
       Log(<< [op |-> "setAttribute", name |-> "Site", value |-> JobSite(stageSites, tiers)] >>)
  /\ \E ok \in BOOLEAN :
       Return(IF ok THEN S_OK ELSE S_ERROR(<< "setAttribute failed" >>))
  /\ UNCHANGED << manifest, stageCheck, siteTiers, syncVars, reschedVars, reqVars, dataVars, resolveVars, stageVars, tqVars >>

Next ==
  \/ AttributesFail
  \/ Reschedule
  \/ GetSitesRequired
  \/ GetJobType
  \/ UserSitesHold
  \/ GetInputData
  \/ RetrieveAndFilter
  \/ ResolveAndFilter
  \/ SendToTQ
  \/ Production
  \/ CheckStageAllowed
  \/ ChooseStageSite
  \/ BuildStageRequest
  \/ RsSetStatus1
  \/ RsSetRequest
  \/ RsSetStatus2
  \/ UpdateSharedSEs
  \/ StoreOptimizerParam
  \/ SetJobSite

Spec == Init /\ [][Next]_vars

\* ------------------------------------------------------------- SpecTwice
\* optimizeJob called twice on one job.  The manifest is kept from the
\* first call to the second, and the collaborators answer the second call
\* as they answered the first; the clock alone may have moved on.  A
\* collaborator that fails ends the call without a forward, as Spec shows,
\* so the answers kept here are those of collaborators that answered.

Stop(kind) == [kind |-> kind, sites |-> {}, banned |-> {}]
Forward(sites, banned) == [kind |-> "forward", sites |-> sites, banned |-> banned]

\* Lines 46-224: how a call ends, given the manifest and the answers: held,
\* failed, gone to staging, or forwarded with the lists given to __sendToTQ.
OptimizeJob(m, counter, dl, w, jt, dp, wms, excl, n, recs, offline) ==
  IF HeldForReschedule(counter, dl, w) THEN Stop("hold")
  ELSE LET req == SitesRequired(m.Site, m.BannedSites, m.BannedSite)
       IN IF ~req.ok THEN Stop("fail")
          ELSE IF /\ req.sites # {} /\ jt \notin excl
                  /\ ApplySiteFilter(req.sites, wms) = {}
          THEN Stop("hold")
          ELSE IF n = 0 THEN Forward(ForwardSites(req.sites, wms), req.banned)
          ELSE IF jt \in dp
          THEN IF offline # EmptyFun THEN Stop("stage")
               ELSE Forward(ForwardSites(req.sites, wms), req.banned)
          ELSE LET cands == IntersectSites(DOMAIN recs, req.sites, req.banned)
                   ids == CompleteSites(cands, recs, n)
                   r == ResolveStaging(n, ids, recs)
               IN IF cands = {} \/ ids = {} \/ r.sites = {} THEN Stop("fail")
                  ELSE IF ApplySiteFilter(r.sites, wms) = {} THEN Stop("hold")
                  ELSE IF r.stageRequired THEN Stop("stage")
                  ELSE Forward(r.sites, req.banned)

\* The options a manifest may have.  BannedSite is read only when
\* BannedSites is not set (line 256).
Manifests ==
  { m \in [Site : SUBSET (Sites \cup {"ANY"}), BannedSites : SUBSET Sites,
           BannedSite : SUBSET Sites, JobType : {{"User"}},
           JobRequirements : {EmptyFun}] :
      m.BannedSites # {} => m.BannedSite = {} }

\* The reschedule attributes and the clock of the first call.
RescheduleAnswers == { << 0, 0 >>, << 1, 59 >>, << 1, 60 >> }

InitTwice ==
  /\ pc = "first"
  /\ calls = << >> /\ ret = NoRet
  /\ manifest \in Manifests
  /\ \E a \in RescheduleAnswers : reschedules = a[1] /\ waited = a[2]
  /\ delays = << 60 >> /\ holdTime = DefaultHoldTime
  /\ jobType \in JobTypes /\ dpTypes = {"DataReconstruction"}
  /\ excluded \in {{}, {"User"}}
  /\ wmsBannedSites \in SUBSET Sites
  /\ numData \in 0..MaxData
  /\ \E keys \in SUBSET Sites : opSites \in [keys -> Records(numData)]
  /\ stageLFNs \in OfflineRequests(numData)
  /\ jobType \notin dpTypes => stageLFNs = EmptyFun
  /\ numData = 0 => opSites = EmptyFun
  /\ userSites = {} /\ userBannedSites = {}
  /\ idSites = {} /\ stageRequired = FALSE /\ siteCandidates = {}
  /\ stageSites = {} /\ stageSite = "" /\ lfnData = EmptyFun
  /\ tapeSEs = {} /\ diskSEs = {} /\ minorOpt = ""
  /\ tqSites = {} /\ tqBanned = {} /\ path = ""
  /\ stageCheck = NoStageCheck
  /\ siteTiers = EmptyFun
  /\ sitesCS = {} /\ statusDB = {} /\ toBeDeleted = {}

\* One call on the manifest and the answers of the state, the clock
\* reading w: a forward writes the manifest and leads to pc = next.
CallOptimizeJob(w, next) ==
  LET o == OptimizeJob(manifest, reschedules, delays, w, jobType, dpTypes,
                       wmsBannedSites, excluded, numData, opSites, stageLFNs)
  IN /\ waited' = w
     /\ IF o.kind = "forward"
        THEN /\ manifest' = ManifestAfterForward(manifest, o.sites, o.banned)
             /\ tqSites' = o.sites /\ tqBanned' = o.banned
             /\ pc' = next /\ ret' = S_OK
        ELSE /\ pc' = "returned"
             /\ ret' = IF o.kind = "fail" THEN S_ERROR(<< o.kind >>) ELSE S_OK
             /\ UNCHANGED << manifest, tqSites, tqBanned >>
     /\ UNCHANGED << calls, stageCheck, siteTiers, syncVars, reschedules, delays, holdTime, reqVars, dataVars,
                     resolveVars, stageVars, path >>

FirstCall == pc = "first" /\ CallOptimizeJob(waited, "second")

SecondCall ==
  /\ pc = "second"
  /\ \E w \in { x \in WaitedValues : x >= waited } : CallOptimizeJob(w, "forwardedTwice")

NextTwice == FirstCall \/ SecondCall

SpecTwice == InitTwice /\ [][NextTwice]_vars

\* ------------------------------------------------------------ SpecResolve
\* __resolveStaging alone, on every record of the sites: the records need
\* not hold every file here.

InitResolve ==
  /\ pc = "resolveStaging"
  /\ calls = << >> /\ ret = NoRet
  /\ manifest = NoManifest /\ stageCheck = NoStageCheck
  /\ siteTiers = EmptyFun
  /\ sitesCS = {} /\ statusDB = {} /\ toBeDeleted = {}
  /\ reschedules = 0 /\ delays = << >> /\ waited = 0 /\ holdTime = DefaultHoldTime
  /\ userSites = {} /\ userBannedSites = {} /\ jobType = "" /\ dpTypes = {}
  /\ excluded = {} /\ wmsBannedSites = {}
  /\ numData \in 1..MaxData
  /\ idSites \in SUBSET Sites \ {{}}
  /\ opSites \in [idSites -> Records(numData)]
  /\ stageRequired = FALSE /\ siteCandidates = {}
  /\ stageSites = {} /\ stageSite = "" /\ lfnData = EmptyFun
  /\ tapeSEs = {} /\ diskSEs = {} /\ stageLFNs = EmptyFun /\ minorOpt = ""
  /\ tqSites = {} /\ tqBanned = {} /\ path = "user"

\* Line 176: __resolveStaging( jobState, inputData, idSites ).
ResolveOnly ==
  /\ pc = "resolveStaging"
  /\ LET r == ResolveStaging(numData, idSites, opSites)
     IN stageRequired' = r.stageRequired /\ siteCandidates' = r.sites
  /\ pc' = "returned" /\ ret' = S_OK
  /\ UNCHANGED << calls, manifest, stageCheck, siteTiers, syncVars, reschedVars, reqVars, dataVars,
                  stageSites, stageSite, stageVars, tqVars >>

NextResolve == ResolveOnly

SpecResolve == InitResolve /\ [][NextResolve]_vars

\* --------------------------------------------------------------- SpecSite
\* __setJobSite alone, on every list of up to three sites and every answer
\* of getSiteTier for them.

TierSites == Sites \cup {"LCG.NIKHEF.nl"}

InitSite ==
  /\ pc = "setJobSite"
  /\ calls = << >> /\ ret = NoRet
  /\ manifest = NoManifest /\ stageCheck = NoStageCheck
  /\ siteTiers \in [TierSites -> Tiers]
  /\ sitesCS = {} /\ statusDB = {} /\ toBeDeleted = {}
  /\ reschedules = 0 /\ delays = << >> /\ waited = 0 /\ holdTime = DefaultHoldTime
  /\ userSites = {} /\ userBannedSites = {} /\ jobType = "" /\ dpTypes = {}
  /\ excluded = {} /\ wmsBannedSites = {}
  /\ numData = 0 /\ idSites = {} /\ opSites = EmptyFun
  /\ stageRequired = FALSE /\ siteCandidates = {}
  /\ stageSites = {} /\ stageSite = "" /\ lfnData = EmptyFun
  /\ tapeSEs = {} /\ diskSEs = {} /\ stageLFNs = EmptyFun /\ minorOpt = ""
  /\ tqSites \in SUBSET TierSites /\ tqBanned = {} /\ path = "user"

\* Lines 528-565: __setJobSite( jobState, siteList ), siteList in tqSites.
SetJobSiteOnly ==
  /\ pc = "setJobSite"
  /\ Log(<< [op |-> "setAttribute", name |-> "Site", value |-> JobSite(tqSites, siteTiers)] >>)
  /\ \E ok \in BOOLEAN :
       Return(IF ok THEN S_OK ELSE S_ERROR(<< "setAttribute failed" >>))
  /\ UNCHANGED << manifest, stageCheck, siteTiers, syncVars, reschedVars, reqVars, dataVars, resolveVars, stageVars, tqVars >>

NextSite == SetJobSiteOnly

SpecSite == InitSite /\ [][NextSite]_vars

\* ----------------------------------------------------------- SpecRequired
\* __getSitesRequired alone, on every manifest: the option Site with sites
\* and entries that read as "any" or "", the options BannedSites and
\* BannedSite.

InitRequired ==
  /\ pc = "getSitesRequired"
  /\ calls = << >> /\ ret = NoRet
  /\ manifest \in [Site : SUBSET ManifestSiteEntries, BannedSites : SUBSET Sites,
                   BannedSite : SUBSET Sites, JobType : {{}},
                   JobRequirements : {EmptyFun}]
  /\ stageCheck = NoStageCheck
  /\ siteTiers = EmptyFun
  /\ sitesCS = {} /\ statusDB = {} /\ toBeDeleted = {}
  /\ reschedules = 0 /\ delays = << >> /\ waited = 0 /\ holdTime = DefaultHoldTime
  /\ userSites = {} /\ userBannedSites = {} /\ jobType = "" /\ dpTypes = {}
  /\ excluded = {} /\ wmsBannedSites = {}
  /\ numData = 0 /\ idSites = {} /\ opSites = EmptyFun
  /\ stageRequired = FALSE /\ siteCandidates = {}
  /\ stageSites = {} /\ stageSite = "" /\ lfnData = EmptyFun
  /\ tapeSEs = {} /\ diskSEs = {} /\ stageLFNs = EmptyFun /\ minorOpt = ""
  /\ tqSites = {} /\ tqBanned = {} /\ path = ""

\* Lines 245-274: __getSitesRequired( jobState ) on the manifest.
GetSitesRequiredOnly ==
  /\ pc = "getSitesRequired"
  /\ \/ /\ Return(S_ERROR(<< "Could not retrieve manifest" >>))
        /\ UNCHANGED << userSites, userBannedSites >>
     \/ LET r == SitesRequired(manifest.Site, manifest.BannedSites, manifest.BannedSite)
        IN IF r.ok
           THEN /\ userSites' = r.sites
                /\ userBannedSites' = r.banned
                /\ Return(S_OK)
           ELSE /\ Return(S_ERROR(<< "Impossible site requirement" >>))
                /\ UNCHANGED << userSites, userBannedSites >>
  /\ UNCHANGED << calls, manifest, stageCheck, siteTiers, syncVars, reschedVars, jobType, dpTypes, excluded, wmsBannedSites,
                  dataVars, resolveVars, stageVars, tqVars >>

NextRequired == GetSitesRequiredOnly

SpecRequired == InitRequired /\ [][NextRequired]_vars

\* --------------------------------------------------------------- SpecSync
\* Synchronizer._syncSites on every configuration and every status table
\* of up to three sites and two status types.

\* RssConfiguration.getValidStatusTypes()[ 'Site' ].
StatusTypes == {"typeA", "typeB"}

\* Lines 40-44: the names selectStatusElement gives for the table.
DBNames(rows) == { row[1] : row \in rows }

\* Line 46: toBeDeleted.
ToBeDeleted(db, cs) == db \cap cs

\* Line 68: toBeAdded.
ToBeAdded(cs, rows) == (cs \X StatusTypes) \ rows

InitSync ==
  /\ pc = "syncSites"
  /\ calls = << >> /\ ret = NoRet
  /\ manifest = NoManifest /\ stageCheck = NoStageCheck
  /\ siteTiers = EmptyFun
  /\ sitesCS \in SUBSET TierSites
  /\ statusDB \in SUBSET (TierSites \X StatusTypes)
  /\ toBeDeleted = {}
  /\ reschedules = 0 /\ delays = << >> /\ waited = 0 /\ holdTime = DefaultHoldTime
  /\ userSites = {} /\ userBannedSites = {} /\ jobType = "" /\ dpTypes = {}
  /\ excluded = {} /\ wmsBannedSites = {}
  /\ numData = 0 /\ idSites = {} /\ opSites = EmptyFun
  /\ stageRequired = FALSE /\ siteCandidates = {}
  /\ stageSites = {} /\ stageSite = "" /\ lfnData = EmptyFun
  /\ tapeSEs = {} /\ diskSEs = {} /\ stageLFNs = EmptyFun /\ minorOpt = ""
  /\ tqSites = {} /\ tqBanned = {} /\ path = ""

\* Lines 32-47: the sites of the configuration and of the table are read.
SyncSelect ==
  /\ pc = "syncSites"
  /\ \/ /\ \E m \in {"getSites failed", "selectStatusElement failed"} :
             Return(S_ERROR(<< m >>))
        /\ UNCHANGED toBeDeleted
     \/ /\ toBeDeleted' = ToBeDeleted(DBNames(statusDB), sitesCS)
        /\ pc' = "syncDelete" /\ ret' = ret
  /\ UNCHANGED << calls, manifest, stageCheck, siteTiers, sitesCS, statusDB, reschedVars, reqVars,
                  dataVars, resolveVars, stageVars, tqVars >>

\* Lines 50-56: one turn of the loop over toBeDeleted, or its end.  A
\* site that is deleted loses every row of the table.
SyncDelete ==
  /\ pc = "syncDelete"
  /\ IF toBeDeleted = {}
     THEN /\ pc' = "syncAdd" /\ ret' = ret
          /\ UNCHANGED << calls, statusDB, toBeDeleted >>
     ELSE \E siteName \in toBeDeleted :
            \/ /\ Log(<< [op |-> "_extermineStatusElement", name |-> siteName, ok |-> TRUE] >>)
               /\ statusDB' = { row \in statusDB : row[1] # siteName }
               /\ toBeDeleted' = toBeDeleted \ {siteName}
               /\ pc' = pc /\ ret' = ret
            \/ /\ Log(<< [op |-> "_extermineStatusElement", name |-> siteName, ok |-> FALSE] >>)
               /\ Return(S_ERROR(<< "_extermineStatusElement failed" >>))
               /\ UNCHANGED << statusDB, toBeDeleted >>
  /\ UNCHANGED << manifest, stageCheck, siteTiers, sitesCS, reschedVars, reqVars,
                  dataVars, resolveVars, stageVars, tqVars >>

\* Lines 58-83: the rows (site, statusType) the table lacks are added, up
\* to the first addition that fails.
SyncAdd ==
  /\ pc = "syncAdd"
  /\ \/ /\ Return(S_ERROR(<< "selectStatusElement failed" >>))
        /\ UNCHANGED << calls, statusDB >>
     \/ \E added \in SUBSET ToBeAdded(sitesCS, statusDB) :
          /\ Log(<< [op |-> "addIfNotThereStatusElement", rows |-> added] >>)
          /\ statusDB' = statusDB \cup added
          /\ IF added = ToBeAdded(sitesCS, statusDB)
             THEN Return(S_OK)
             ELSE Return(S_ERROR(<< "addIfNotThereStatusElement failed" >>))
  /\ UNCHANGED << manifest, stageCheck, siteTiers, sitesCS, toBeDeleted, reschedVars, reqVars,
                  dataVars, resolveVars, stageVars, tqVars >>

NextSync == SyncSelect \/ SyncDelete \/ SyncAdd

SpecSync == InitSync /\ [][NextSync]_vars

\* ----------------------------------------------------------------- claims

\* The LFNs of a stage request, and how many SE lists hold a given one.
RequestLFNs(stage) ==
  UNION { { stage[s][k] : k \in 1..Len(stage[s]) } : s \in DOMAIN stage }
ListsHolding(stage, lfn) ==
  Cardinality({ p \in (DOMAIN stage) \X (1..MaxCatalogue) :
                  p[2] <= Len(stage[p[1]]) /\ stage[p[1]][p[2]] = lfn })

\* C1: in every stage request returned by __preRequestStaging every LFN is
\* in the list of exactly one SE and every SE has a non-empty list.
C1_ExactlyOneSE ==
  (pc = "returned" /\ ret.ok) =>
     /\ \A lfn \in RequestLFNs(stageLFNs) : ListsHolding(stageLFNs, lfn) = 1
     /\ \A s \in DOMAIN stageLFNs : Len(stageLFNs[s]) > 0

\* The log entries of one operation, and whether the call was held.
CallsOf(o) == { i \in 1..Len(calls) : calls[i].op = o }
Called(o) == CallsOf(o) # {}
HeldByReschedule ==
  \E i \in CallsOf("setAppStatus") :
     calls[i].msg = << "On Hold: after rescheduling", reschedules >>

\* C8: for a counter > 0 the job is held exactly when it has waited less than
\* delays[min(counter, |delays|-1)], which is the last delay once the counter
\* reaches |delays|, and a non-zero delay is the time the task is frozen
\* for; a job with counter 0 is not held.
C8_BackOffDelay ==
  pc # "start" =>
    LET n == Len(delays)
        idx == IF reschedules < n - 1 THEN reschedules ELSE n - 1
        d == delays[idx + 1]
    IN /\ (reschedules = 0) => (~Called("freezeTask") /\ pc = "getSitesRequired")
       /\ (reschedules > 0) =>
            /\ (pc = "returned") <=> (waited < d)
            /\ (reschedules >= n) => d = delays[n]
            /\ (pc = "returned" /\ d # 0) =>
                 \E i \in CallsOf("freezeTask") : calls[i].delay = d

C8_Witness ==
  /\ pc = "returned" /\ reschedules > Len(delays) /\ Len(delays) = 2
  /\ delays[1] # delays[2]
  /\ \E i \in CallsOf("freezeTask") : calls[i].delay = delays[2]

\* C9: a job held for rescheduling is frozen for the remaining delay,
\* delay - waited, and its application status is "On Hold: after
\* rescheduling <counter>".
C9_RemainingDelay ==
  (pc = "returned" /\ Called("freezeTask")) =>
     /\ \A i \in CallsOf("freezeTask") :
          calls[i].delay = RescheduleDelay(reschedules, delays) - waited
     /\ HeldByReschedule

\* C2: a user job with input data that asks for no site is not failed with
\* "Impossible InputData * Site requirements" when the optimizer record has
\* a site the user did not ban.
C2_NoSiteMeansAnySite ==
  (/\ pc = "returned" /\ path = "user"
   /\ userSites = {}
   /\ DOMAIN opSites \ userBannedSites # {})
     => ret.msg # << "Impossible InputData * Site requirements" >>

\* The positions in the log of the status writes of __requestStaging.
StatusWrites == CallsOf("setStatus")
NthStatus(n) ==
  CHOOSE i \in StatusWrites : Cardinality({ j \in StatusWrites : j <= i }) = n

\* C3: the StageRequest parameter is written exactly when the stager took
\* the request; the write comes right after the stager's answer, after the
\* first status write and before the second, with the id the stager gave.
C3_ParameterIffRequestSent ==
  /\ Cardinality(CallsOf("setParameter")) <= 1
  /\ Called("setParameter") <=> (\E j \in CallsOf("setRequest") : calls[j].ok)
  /\ \A i \in CallsOf("setParameter") :
       /\ calls[i].name = "StageRequest"
       /\ i > 1 /\ calls[i - 1].op = "setRequest" /\ calls[i - 1].ok
       /\ calls[i].value = calls[i - 1].rid
       /\ Cardinality({ j \in StatusWrites : j < i }) = 1
       /\ \A j \in StatusWrites : j < i => calls[j].ok

C3_Witness ==
  /\ pc = "returned" /\ path = "user" /\ ret.ok
  /\ Cardinality(StatusWrites) = 2
  /\ \E i \in CallsOf("setParameter") :
       /\ calls[i].value = "rid2"
       /\ NthStatus(1) < i /\ i < NthStatus(2)

\* A failed step of the stager dispatch: a status write or the request.
DispatchFailed ==
  \E i \in 1..Len(calls) : calls[i].op \in {"setStatus", "setRequest"} /\ ~calls[i].ok

\* C4: when the stager dispatch fails, optimizeJob returns a failure, on the
\* user path and on the production shortcut alike.
C4_DispatchFailureFailsJob ==
  (pc = "returned" /\ DispatchFailed) => ~ret.ok

\* C5: a job without input data is sent to the task queue with the sites
\* and banned sites of __getSitesRequired, not reduced by the WMS mask, no
\* stage request is built or sent, and the call ends in setNextOptimizer
\* unless a collaborator of __sendToTQ fails.
C5_NoInputForwards ==
  path = "noInput" =>
    /\ pc \in {"sendToTQ", "returned"}
    /\ tqSites = userSites /\ tqBanned = userBannedSites
    /\ stageLFNs = EmptyFun /\ stageSite = ""
    /\ ~Called("setStatus") /\ ~Called("setRequest") /\ ~Called("setParameter")
    /\ ~Called("storeOptimizerParam") /\ ~Called("freezeTask")
    /\ \A i \in CallsOf("setOption") :
         /\ calls[i].name = "Sites" => calls[i].value = userSites
         /\ calls[i].name = "BannedSites" => calls[i].value = userBannedSites
    /\ (pc = "returned" /\ ret.ok) =>
         /\ calls[Len(calls)].op = "setNextOptimizer"
         /\ userSites # {} =>
              \E i \in CallsOf("setOption") : calls[i].name = "Sites"

C5_Witness ==
  /\ path = "noInput" /\ pc = "returned" /\ ret.ok
  /\ Called("setNextOptimizer")
  /\ userSites \cap wmsBannedSites # {}
  /\ userBannedSites # {}
  /\ \E i \in CallsOf("setOption") :
       calls[i].name = "Sites" /\ calls[i].value \cap wmsBannedSites # {}

\* C6: __updateSharedSESites leaves the record of the stage site alone, and
\* for every other site of SiteCandidates disk does not decrease, tape does
\* not increase and disk + tape stays what it was.
C6_SharedSEUpdate ==
  [][pc = "updateSharedSESites" =>
       /\ DOMAIN opSites' = DOMAIN opSites
       /\ \A site \in DOMAIN opSites :
            IF site = stageSite THEN opSites'[site] = opSites[site]
            ELSE /\ opSites'[site].disk >= opSites[site].disk
                 /\ opSites'[site].tape <= opSites[site].tape
                 /\ opSites'[site].disk + opSites'[site].tape
                      = opSites[site].disk + opSites[site].tape]_vars

\* A call reaches the store only when no site of idSites had every file on
\* disk, so a site of idSites other than the stage site that has them all
\* on disk now was promoted by the update.
C6_Witness ==
  /\ pc = "store"
  /\ \E site \in idSites \ {stageSite} :
       opSites[site].disk = numData /\ opSites[site].tape = 0

\* C7: for a user job with input data every site of the final candidate
\* list (the sites sent to the task queue when nothing is staged, stageSites
\* when something is) has disk + tape = |inputData|, up to the end of the
\* call.
C7_CandidatesHaveAllData ==
  path = "user" =>
    \A site \in tqSites \cup stageSites :
      /\ site \in idSites
      /\ opSites[site].disk + opSites[site].tape = numData

C7_Witness ==
  /\ path = "user" /\ pc = "returned" /\ ret.ok
  /\ Called("storeOptimizerParam")
  /\ Cardinality(stageSites) = 2
  /\ opSites[stageSite] = [disk |-> numData, tape |-> 0]
  /\ \E site \in stageSites \ {stageSite} : opSites[site].tape = 0

\* C10: a call of __requestStaging that completes writes the status twice,
\* first with the minor status "Request To Be Sent" (or the configured
\* one), then with "Request Sent" whatever the option StagingMinorStatus
\* is, so that the two writes differ.
C10_TwoDistinctStatusWrites ==
  (Cardinality(StatusWrites) = 2 /\ calls[NthStatus(2)].ok) =>
     /\ calls[NthStatus(1)].major = "Staging"
     /\ calls[NthStatus(1)].minor = GetOption(minorOpt, "Request To Be Sent")
     /\ calls[NthStatus(2)].major = "Staging"
     /\ calls[NthStatus(2)].minor = "Request Sent"
     /\ calls[NthStatus(1)].minor # calls[NthStatus(2)].minor

\* What the log holds whenever the optimizer record was stored.
StoredInOrder ==
  \A i \in CallsOf("storeOptimizerParam") :
    /\ path = "user"
    /\ \E j \in CallsOf("setRequest") : j < i /\ calls[j].ok
    /\ Cardinality({ j \in StatusWrites : j < i }) = 2
    /\ ~DispatchFailed
    /\ ~Called("freezeTask") /\ ~Called("setNextOptimizer")
    /\ Cardinality(CallsOf("storeOptimizerParam")) = 1

\* C11: storeOptimizerParam is called only after stager.setRequest
\* succeeded and after __updateSharedSESites ran in the same call; a call
\* that holds, forwards without staging, or fails before or during the
\* stage dispatch never calls it.
C11_StoreAfterDispatchAndUpdate ==
  [][/\ StoredInOrder'
     /\ (Called("storeOptimizerParam")' /\ ~Called("storeOptimizerParam"))
          => pc = "store"
     /\ (pc' = "store" /\ pc # "store") => pc = "updateSharedSESites"]_vars

C11_Witness ==
  /\ pc = "returned" /\ ret.ok
  /\ Called("storeOptimizerParam")
  /\ calls[Len(calls)].op = "setAttribute"

\* C12: in scenario S6 (replicas A:[T1,T2], B:[T1], C:[T2], T1 and T2
\* tape-read, no disk-read SE) __preRequestStaging returns T1:[A,B], T2:[C].
\* The LFNs A, B, C are 1, 2, 3 and the SEs T1, T2 are 1, 2.
C12_ScenarioS6 ==
  (/\ pc = "returned"
   /\ lfnData = << << 1, 2 >>, << 1 >>, << 2 >> >>
   /\ tapeSEs = {1, 2} /\ diskSEs = {})
     => (ret.ok /\ stageLFNs = (1 :> << 1, 2 >>) @@ (2 :> << 3 >>))

\* C13: in scenario S3 (inputData = [L1, L2], SiteCandidates = {X: {disk: 2,
\* tape: 0}, Y: {disk: 1, tape: 1}}, userSites = [X, Y], nothing banned) the
\* job is forwarded without staging and __setJobSite computes the Site
\* attribute from the list of both sites.  X is LCG.CERN.ch, Y is LCG.PIC.es.
C13_ScenarioS3 ==
  (/\ pc = "returned" /\ path = "user"
   /\ numData = 2
   /\ opSites = ("LCG.CERN.ch" :> [disk |-> 2, tape |-> 0]) @@
                ("LCG.PIC.es" :> [disk |-> 1, tape |-> 1])
   /\ userSites = {"LCG.CERN.ch", "LCG.PIC.es"}
   /\ userBannedSites = {} /\ wmsBannedSites = {}
   /\ ret.ok)
     => /\ ~Called("setStatus") /\ ~Called("setRequest")
        /\ Called("setNextOptimizer")
        /\ tqSites = {"LCG.CERN.ch", "LCG.PIC.es"}
        /\ \A i \in CallsOf("setAttribute") :
             \E tiers \in [{"LCG.CERN.ch", "LCG.PIC.es"} -> Tiers] :
               calls[i].value = JobSite({"LCG.CERN.ch", "LCG.PIC.es"}, tiers)

\* C14: when a call of optimizeJob forwarded without staging, a second call
\* on the manifest it left, with the collaborators answering as before,
\* forwards too and leaves the section JobRequirements as it found it.
C14_SecondForwardSame ==
  [][pc = "second" =>
       /\ pc' = "forwardedTwice"
       /\ manifest'.JobRequirements = manifest.JobRequirements
       /\ tqSites' = tqSites /\ tqBanned' = tqBanned]_vars

C14_Witness ==
  /\ pc = "forwardedTwice"
  /\ numData = 2 /\ jobType \notin dpTypes
  /\ DOMAIN manifest.JobRequirements = {"Sites", "BannedSites", "JobTypes"}
  /\ manifest.JobRequirements["Sites"] # manifest.Site

\* C15: after the back-off check, a job that asks for sites, whose type is
\* not in ExcludedOnHoldJobTypes and whose requested sites are all in the
\* WMS mask is held: freezeTask(HoldTime), then the application status
\* "Requested site <s> is inactive" for one site, "Requested sites <...> are
\* inactive" for several; nothing is forwarded or written to the manifest.
\* Any other job, one of an excluded type among them, goes on to its input
\* data.
C15_InactiveSitesHold ==
  [][pc = "userSitesHold" =>
       IF /\ userSites # {}
          /\ jobType \notin excluded'
          /\ userSites \subseteq wmsBannedSites
       THEN /\ pc' = "returned"
            /\ calls' = calls \o
                 << [op |-> "freezeTask", delay |-> holdTime],
                    [op |-> "setAppStatus",
                     msg |-> IF Cardinality(userSites) = 1
                             THEN << "Requested site is inactive", userSites >>
                             ELSE << "Requested sites are inactive", userSites >>] >>
            /\ manifest' = manifest
            /\ tqSites' = {} /\ tqBanned' = {}
       ELSE /\ pc' = "getInputData"
            /\ calls' = calls /\ ret' = ret]_vars

C15_Witness ==
  /\ pc = "returned" /\ path = ""
  /\ Cardinality(userSites) = 2 /\ userSites = wmsBannedSites
  /\ excluded = {"DataReconstruction"} /\ jobType = "User"
  /\ Len(calls) = 2 /\ calls[1].op = "freezeTask" /\ calls[1].delay = DefaultHoldTime
  /\ calls[2].msg[1] = "Requested sites are inactive"

\* C16: on the user path, with staging required, RestrictDataStage set and
\* an owner group without STAGE_ALLOWED, the call fails with "Stage not
\* allowed"; a call that fails with "Stage not allowed", on the user path or
\* the production shortcut, has written no status, sent no stage request,
\* written no StageRequest parameter and stored no optimizer record; with
\* RestrictDataStage not set the user path does not ask for the group.
C16_StageNotAllowed ==
  [][/\ pc = "checkStageAllowed" =>
          /\ stageCheck'.asked = stageCheck'.restrict
          /\ (stageCheck'.restrict /\ stageCheck'.answer = "Stage not allowed")
               => (pc' = "returned" /\ ret' = S_ERROR(<< "Stage not allowed" >>))
          /\ ~stageCheck'.restrict => (pc' = "rewrite" /\ ret' = ret)
          /\ calls' = calls
     /\ (pc' = "returned" /\ ret' = S_ERROR(<< "Stage not allowed" >>)) =>
          /\ pc \in {"checkStageAllowed", "production"}
          /\ stageCheck'.asked /\ stageCheck'.answer = "Stage not allowed"
          /\ ~Called("setStatus")' /\ ~Called("setRequest")'
          /\ ~Called("setParameter")' /\ ~Called("storeOptimizerParam")'
          /\ ~Called("setNextOptimizer")']_vars

C16_Witness ==
  /\ pc = "returned" /\ path = "user" /\ stageRequired
  /\ ret = S_ERROR(<< "Stage not allowed" >>)
  /\ stageCheck = [restrict |-> TRUE, asked |-> TRUE, answer |-> "Stage not allowed"]

\* C17: a job of a data-processing type with input data is held with the
\* message of getFilesToStage when that call fails, is forwarded through
\* __sendToTQ with userSites and userBannedSites when no LFN is offline,
\* and, when some are and staging is allowed, has a stage request for them
\* dispatched and is not forwarded; the optimizer record is neither read
\* nor stored.
C17_ProductionShortcut ==
  path = "production" =>
    /\ numData > 0
    /\ pc \in {"production", "sendToTQ", "rs_setStatus1", "rs_setRequest",
               "rs_setStatus2", "returned"}
    /\ opSites = EmptyFun /\ idSites = {} /\ ~Called("storeOptimizerParam")
    /\ Called("freezeTask") =>
         /\ pc = "returned" /\ stageLFNs = EmptyFun
         /\ calls = << [op |-> "freezeTask", delay |-> holdTime],
                       [op |-> "setAppStatus", msg |-> << "getFilesToStage failed" >>] >>
    /\ (pc = "sendToTQ" \/ Called("setOption") \/ Called("setNextOptimizer")) =>
         /\ stageLFNs = EmptyFun /\ ~stageCheck.asked
         /\ tqSites = userSites /\ tqBanned = userBannedSites
         /\ ~Called("setStatus") /\ ~Called("setRequest")
    /\ (pc = "returned" /\ ret.ok /\ ~Called("freezeTask") /\ stageLFNs = EmptyFun) =>
         calls[Len(calls)].op = "setNextOptimizer"
    /\ stageLFNs # EmptyFun =>
         /\ stageLFNs \in OfflineRequests(numData)
         /\ stageCheck.asked /\ stageCheck.answer = "allowed"
         /\ pc # "sendToTQ"
         /\ ~Called("setNextOptimizer") /\ ~Called("setOption") /\ ~Called("setAttribute")
         /\ pc = "returned" => Called("setStatus")

C17_Witness ==
  /\ path = "production" /\ pc = "returned" /\ ret.ok
  /\ stageLFNs # EmptyFun
  /\ Cardinality(StatusWrites) = 2 /\ Called("setParameter")

\* C18: for non-empty input data and a non-empty idSites, __resolveStaging
\* gives stageRequired = false exactly when some site has every file on
\* disk, with exactly those sites as candidates; otherwise it gives
\* stageRequired = true with exactly the sites whose disk count is the
\* largest of idSites.
C18_ResolveStaging ==
  pc = "returned" =>
    LET full == { site \in idSites : opSites[site].disk = numData }
        most == { site \in idSites :
                    \A other \in idSites : opSites[other].disk <= opSites[site].disk }
    IN /\ stageRequired <=> (full = {})
       /\ siteCandidates = IF full # {} THEN full ELSE most

C18_Witness ==
  /\ pc = "returned" /\ stageRequired
  /\ Cardinality(idSites) = 2 /\ Cardinality(siteCandidates) = 1
  /\ \E site \in siteCandidates : opSites[site].disk = 1
  /\ numData = 2

\* Whether an LFN has a replica on a disk-read SE of the stage site, and
\* whether it is left to stage: none on disk, one on a tape-read SE.
OnDisk(lfn) == \E k \in DOMAIN lfnData[lfn] : lfnData[lfn][k] \in diskSEs
LeftToStage(lfn) ==
  ~OnDisk(lfn) /\ \E k \in DOMAIN lfnData[lfn] : lfnData[lfn][k] \in tapeSEs

\* C19: a stage request of __preRequestStaging holds no LFN with a replica
\* on a disk-read SE of the stage site, wherever that replica stands in the
\* replica list and whether or not the SE is tape-read too; every entry
\* (SE, LFN) has SE tape-read and among the replica SEs of LFN.  The build
\* fails with "No Local SEs for site <stageSite>" without a tape-read SE and
\* with "Cannot find tape replicas" when no LFN is left to stage.
C19_TapeReplicasOnly ==
  pc = "returned" =>
    /\ ret = IF tapeSEs = {}
             THEN S_ERROR(<< "No Local SEs for site", stageSite >>)
             ELSE IF \A lfn \in DOMAIN lfnData : ~LeftToStage(lfn)
             THEN S_ERROR(<< "Cannot find tape replicas" >>)
             ELSE S_OK
    /\ ~ret.ok => stageLFNs = EmptyFun
    /\ \A se \in DOMAIN stageLFNs : \A k \in 1..Len(stageLFNs[se]) :
         LET lfn == stageLFNs[se][k]
         IN /\ lfn \in DOMAIN lfnData
            /\ ~OnDisk(lfn)
            /\ se \in tapeSEs
            /\ \E j \in DOMAIN lfnData[lfn] : lfnData[lfn][j] = se

C19_Witness ==
  /\ pc = "returned" /\ ret.ok
  /\ tapeSEs = {1, 2} /\ diskSEs = {2}
  /\ \E lfn \in DOMAIN lfnData :
       lfnData[lfn] = << 1, 2 >> /\ lfn \notin RequestLFNs(stageLFNs)
  /\ RequestLFNs(stageLFNs) # {}

\* The tier __setJobSite compares: tier 0 reads as tier 1.
TierRead(site) == IF siteTiers[site] = 0 THEN 1 ELSE siteTiers[site]

\* The sites of the list whose tier lookup succeeded and whose tier, read
\* so, is the lowest among them.
LowestTierSites ==
  { s \in tqSites : /\ siteTiers[s] # NoTier
                    /\ \A t \in tqSites :
                         siteTiers[t] # NoTier => TierRead(s) <= TierRead(t) }

\* C20: __setJobSite writes the attribute Site once: "ANY" for an empty
\* list, the site for a list of one, and for two or more sites "Group." and
\* the site name without its first dotted token exactly when one single site
\* among those whose tier lookup succeeded has the lowest tier, tier 0 read
\* as tier 1; "Multiple" otherwise, also when every lookup fails.
C20_SetJobSite ==
  pc = "returned" =>
    /\ Len(calls) = 1
    /\ calls[1].op = "setAttribute" /\ calls[1].name = "Site"
    /\ calls[1].value =
         IF tqSites = {} THEN << "ANY" >>
         ELSE IF Cardinality(tqSites) = 1 THEN << CHOOSE s \in tqSites : TRUE >>
         ELSE IF Cardinality(LowestTierSites) = 1
         THEN IF "LCG.CERN.ch" \in LowestTierSites THEN << "Group.", "CERN.ch" >>
              ELSE IF "LCG.PIC.es" \in LowestTierSites THEN << "Group.", "PIC.es" >>
              ELSE << "Group.", "NIKHEF.nl" >>
         ELSE << "Multiple" >>

C20_Witness ==
  /\ pc = "returned"
  /\ tqSites = TierSites
  /\ siteTiers["LCG.CERN.ch"] = 0 /\ siteTiers["LCG.PIC.es"] = 2
  /\ siteTiers["LCG.NIKHEF.nl"] = NoTier
  /\ calls[1].value = << "Group.", "CERN.ch" >>

\* C21: once the manifest is read, __getSitesRequired fails with
\* "Impossible site requirement" exactly when the option Site, without its
\* entries that read as "any" or "", is non-empty and every site left is
\* banned; when it succeeds the sites returned are those left that are not
\* banned, and the banned sites are the option BannedSites when it is
\* non-empty and the option BannedSite otherwise.
C21_ImpossibleSiteRequirement ==
  LET wanted == manifest.Site \ {"ANY", " any ", ""}
      banned == IF manifest.BannedSites # {} THEN manifest.BannedSites
                ELSE manifest.BannedSite
  IN (pc = "returned" /\ ret # S_ERROR(<< "Could not retrieve manifest" >>)) =>
       /\ ret = S_ERROR(<< "Impossible site requirement" >>)
            <=> (wanted # {} /\ wanted \subseteq banned)
       /\ ret # S_ERROR(<< "Impossible site requirement" >>) => ret = S_OK
       /\ ret.ok =>
            /\ userSites = wanted \ banned
            /\ userSites \cap banned = {}
            /\ userSites \cap {"ANY", " any ", ""} = {}
            /\ userBannedSites = banned

C21_Witness ==
  /\ pc = "returned"
  /\ ret = S_ERROR(<< "Impossible site requirement" >>)
  /\ manifest.Site = {"LCG.CERN.ch", " any "}
  /\ manifest.BannedSites = {}
  /\ manifest.BannedSite = {"LCG.CERN.ch"}

\* The option Sites written for a user job with input data is the list of
\* candidate sites of __resolveStaging.
ForwardsCandidates ==
  path = "user" =>
    \A i \in CallsOf("setOption") :
      calls[i].name = "Sites" => calls[i].value = siteCandidates

\* C22: for a user job with input data, when every candidate site of
\* __resolveStaging is in the WMS mask the job is held, whether or not
\* staging is required: freezeTask(HoldTime), then the application status
\* "Sites <...> are inactive or banned"; the call ends there, nothing is
\* forwarded, no stage request is sent and the optimizer record is not
\* stored.  When a candidate is outside the mask and no staging is required,
\* the job goes to __sendToTQ with every candidate, the masked ones too.
C22_CandidatesAllBanned ==
  [][/\ pc = "resolveStaging" =>
          /\ (siteCandidates' # {} /\ siteCandidates' \subseteq wmsBannedSites) =>
               /\ pc' = "returned"
               /\ calls' = << [op |-> "freezeTask", delay |-> holdTime],
                              [op |-> "setAppStatus",
                               msg |-> << "Sites are inactive or banned",
                                          siteCandidates' >>] >>
               /\ manifest' = manifest
               /\ tqSites' = {}
          /\ (~(siteCandidates' \subseteq wmsBannedSites) /\ ~stageRequired') =>
               /\ pc' = "sendToTQ"
               /\ tqSites' = siteCandidates' /\ tqBanned' = userBannedSites
               /\ calls' = << >>
     /\ ForwardsCandidates']_vars

C22_Witness ==
  /\ pc = "returned" /\ path = "user"
  /\ ~stageRequired
  /\ Cardinality(siteCandidates) = 2 /\ siteCandidates \subseteq wmsBannedSites
  /\ Called("freezeTask") /\ ~Called("setNextOptimizer")

\* C23: every record of the optimizer record stored after staging, that of
\* the stage site, those of the other candidates and those of the sites
\* filtered out earlier, has disk >= 0, tape >= 0 and disk + tape at most the
\* number of input files.
C23_StoredRecordsInBounds ==
  \A i \in CallsOf("storeOptimizerParam") :
    \A site \in DOMAIN calls[i].value :
      LET rec == calls[i].value[site]
      IN rec.disk >= 0 /\ rec.tape >= 0 /\ rec.disk + rec.tape <= numData

\* C24: _syncSites deletes from the status table the sites that are in
\* the table and not in the configuration: a site of the configuration is
\* never deleted, and after a successful run the table has no site that the
\* configuration lacks.
C24_DeletesSitesNotInCS ==
  /\ \A i \in CallsOf("_extermineStatusElement") : calls[i].name \notin sitesCS
  /\ (pc = "returned" /\ ret.ok) => DBNames(statusDB) \subseteq sitesCS

\* C25: a call of optimizeJob has one outcome.  Of setNextOptimizer (the
\* forward), freezeTask (the hold) and the stager's setRequest (the stage
\* request) at most one is called, and at most once; and a call that
\* returns a failure has called neither setNextOptimizer nor freezeTask.
C25_OneOutcome ==
  /\ \A o \in {"setNextOptimizer", "freezeTask", "setRequest"} :
       Cardinality(CallsOf(o)) <= 1
  /\ Cardinality({ o \in {"setNextOptimizer", "freezeTask", "setRequest"} : Called(o) }) <= 1
  /\ (pc = "returned" /\ ~ret.ok) =>
       ~Called("setNextOptimizer") /\ ~Called("freezeTask")

\* C26: the stage site optimizeJob chooses on the user path is a key of
\* SiteCandidates, is asked for by the user, is banned neither by the user
\* nor by the WMS mask, has every input file (disk + tape) before the
\* rewrite, and has the largest disk count among the sites that meet the
\* user's requirement and have every file, those in the WMS mask included;
\* after the rewrite its record is disk = |inputData|, tape = 0, and the
\* other records are as they were.
C26_StageSiteChoice ==
  [][pc = "rewrite" =>
       LET complete == { s \in (DOMAIN opSites \cap userSites) \ userBannedSites :
                           opSites[s].disk + opSites[s].tape = numData }
       IN /\ pc' = "preRequestStaging"
          /\ stageSite' \in DOMAIN opSites
          /\ stageSite' \in userSites
          /\ stageSite' \notin userBannedSites
          /\ stageSite' \notin wmsBannedSites
          /\ opSites[stageSite'].disk + opSites[stageSite'].tape = numData
          /\ \A s \in complete : opSites[s].disk <= opSites[stageSite'].disk
          /\ opSites'[stageSite'] = [disk |-> numData, tape |-> 0]
          /\ \A s \in DOMAIN opSites \ {stageSite'} : opSites'[s] = opSites[s]]_vars

C26_Witness ==
  /\ pc = "preRequestStaging" /\ path = "user"
  /\ numData = 2
  /\ Cardinality(idSites) = 2 /\ stageSites = {stageSite}
  /\ opSites[stageSite] = [disk |-> 2, tape |-> 0]
  /\ \E s \in idSites \ {stageSite} : opSites[s] = [disk |-> 1, tape |-> 1]

\* C27: on the user path, when the stager's setRequest fails, optimizeJob
\* returns the failure "Problem sending staging request"; the parameter
\* StageRequest is not written, the optimizer record is not stored, the
\* attribute Site is not set, and the last status written for the job is the
\* one written before the request, (Staging, "Request To Be Sent") unless
\* the option StagingMinorStatus gives another minor status: nothing puts
\* the status of the job back.
C27_SetRequestFails ==
  (path = "user" /\ pc = "returned"
     /\ \E i \in CallsOf("setRequest") : ~calls[i].ok) =>
    /\ ret = S_ERROR(<< "Problem sending staging request" >>)
    /\ ~Called("setParameter")
    /\ ~Called("storeOptimizerParam")
    /\ ~Called("setAttribute")
    /\ calls[Len(calls)].op = "setRequest"
    /\ Cardinality(StatusWrites) = 1
    /\ calls[NthStatus(1)] =
         [op |-> "setStatus", major |-> "Staging",
          minor |-> IF minorOpt = "" THEN "Request To Be Sent" ELSE minorOpt,
          ok |-> TRUE]

C27_Witness ==
  /\ path = "user" /\ pc = "returned"
  /\ ret = S_ERROR(<< "Problem sending staging request" >>)
  /\ Len(calls) = 2
  /\ calls[1] = [op |-> "setStatus", major |-> "Staging",
                 minor |-> "Request To Be Sent", ok |-> TRUE]
  /\ calls[2].op = "setRequest" /\ ~calls[2].ok

====
